---- MODULE Spec2Model ----
(***************************************************************************)
(* Model of Exporter.py: the traversal and export-decision engine of the   *)
(* Fusion 360 batch exporter (projects -> folders -> files -> versions ->   *)
(* components/sketches), its version resolver, its skip policy and its      *)
(* lazily opened document handle.                                           *)
(***************************************************************************)
EXTENDS Integers, Sequences, FiniteSets, TLC

VARIABLES
    cfg,      \* the Ctx main is given: folder, formats, projects_folders, flags, num_versions
    store,    \* the data store: what file A reports as its versions
    fs,       \* the filesystem: the paths that exist, with their modification times
    pc,       \* where the run is
    mainf,    \* the frame of main: projects and folders still to visit, its Counter
    fstack,   \* the frames of the nested visit_folder calls, innermost last
    gen,      \* the generator of file_versions for the file the innermost loop is at
    vf,       \* the frame of visit_file, with its LazyDocument
    sstack,   \* the frames of the nested visit_sketches calls, innermost last
    openDocs, \* the documents open in the application
    failures, \* how many external calls have failed so far
    log,      \* history: the calls made and what came of them, in order
    sIn,      \* skip-policy harness: the candidate path, the filesystem, the source's time
    sOut,     \* skip-policy harness: the decision and the filesystem after it
    vIn,      \* version-resolver harness: the file and num_versions given to file_versions
    vGen,     \* version-resolver harness: the generator's frame
    vOut      \* version-resolver harness: what the consumer has received so far

mvars == <<cfg, store, fs, pc, mainf, fstack, gen, vf, sstack, openDocs, failures, log>>
vvars == <<vIn, vGen, vOut>>
svars == <<sIn, sOut>>
vars == <<mvars, svars, vvars>>

-----------------------------------------------------------------------------
(* Bounds of the model *)

\* highest version number a file of the modelled data store has
MaxVersion == 3

\* how many external calls (open, export, saveAsDXF, utime) may fail in a run
MaxFailures == 2

\* how many calls are made on a LazyDocument taken on its own
MaxCalls == 4

-----------------------------------------------------------------------------
(* Small helpers *)

Min(a, b) == IF a < b THEN a ELSE b
Max(a, b) == IF a > b THEN a ELSE b

RECURSIVE Perms(_)
\* all orders in which the members of a finite set can be listed
Perms(S) ==
    IF S = {} THEN {<<>>}
    ELSE UNION {{<<x>> \o p : p \in Perms(S \ {x})} : x \in S}

\* Python's s[start:stop] for start >= 0 (a negative stop counts from the end)
PySlice(s, start, stop) ==
    LET hi == IF stop < 0 THEN Max(Len(s) + stop, 0) ELSE Min(stop, Len(s))
    IN  SubSeq(s, start + 1, hi)

\* Python's s[start:]
PySliceFrom(s, start) == SubSeq(s, start + 1, Len(s))

-----------------------------------------------------------------------------
(* Names and paths.  A display name is a sequence of characters; a path is  *)
(* a sequence of segments, each a string.                                    *)

RECURSIVE Flat(_)
\* the string a sequence of characters spells
Flat(cs) == IF cs = <<>> THEN "" ELSE Head(cs) \o Flat(Tail(cs))

\* the characters re.sub replaces: [:\\/*?<>|"]
BadChars == {":", "\\", "/", "*", "?", "<", ">", "|", "\""}

\* re.sub(r'[:\\/*?<>|"]', ' ', name)
WithReplacement(name) ==
    [i \in 1 .. Len(name) |-> IF name[i] \in BadChars THEN " " ELSE name[i]]

\* the code of a character, as hashlib is given it by name.encode()
CharCode(c) ==
    CASE c = ":" -> "3a" [] c = "/" -> "2f" [] c = "\\" -> "5c" [] c = "*" -> "2a"
      [] c = "?" -> "3f" [] c = "<" -> "3c" [] c = ">" -> "3e" [] c = "|" -> "7c"
      [] c = "\"" -> "22" [] c = " " -> "20" [] c = "_" -> "5f" [] c = "." -> "2e"
      [] c = "1" -> "31" [] c = "2" -> "32"
      [] c = "a" -> "61" [] c = "b" -> "62" [] c = "c" -> "63" [] c = "d" -> "64"
      [] c = "k" -> "6b" [] c = "s" -> "73" [] c = "R" -> "52" [] c = "S" -> "53"
      [] OTHER -> "00"

\* hashlib.sha256(name.encode()).hexdigest()[:8], taken to be free of
\* collisions: the digest is stood for by the codes of the name's characters
Hash8(name) == Flat([i \in 1 .. Len(name) |-> CharCode(name[i])])

\* sanitize_filename(name)
SanitizeFilename(name) ==
    LET with_replacement == WithReplacement(name) IN
    IF name = with_replacement THEN Flat(name)
    ELSE Flat(with_replacement) \o "_" \o Hash8(name)

\* path / segment
Join(path, segment) == Append(path, segment)

\* path.name
PathName(path) == path[Len(path)]

\* path.with_name(name)
WithName(path, name) == [path EXCEPT ![Len(path)] = name]

-----------------------------------------------------------------------------
(* output_path_exists: the skip policy.  The filesystem is a function from  *)
(* the paths that exist to their modification times.                         *)

archive_extensions == <<".zip", ".rar", ".gz", ".tar.gz", ".tar.bz2", ".tar.xz">>

update_existing_file_times == FALSE

\* os.utime(path, (time, time))
SetMtime(files, path, time) == [files EXCEPT ![path] = time]

\* a policy that knows nothing of archived outputs
ArchiveExists_none(path, files) == FALSE

\* the loop over archive_extensions: some path.name + archive_extension exists
ArchiveExists(path, files) ==
    \E i \in 1 .. Len(archive_extensions) :
        WithName(path, PathName(path) \o archive_extensions[i]) \in DOMAIN files

\* output_path_exists that finds nothing there
OutputPathExists_never(path, files, time, update) ==
    [exists |-> FALSE, fs |-> files]

\* output_path_exists(path, doc), with doc.file.dateModified = time and the
\* module's update_existing_file_times = update: the answer and the
\* filesystem it leaves
OutputPathExists(path, files, time, update) ==
    IF path \in DOMAIN files THEN
        [exists |-> TRUE, fs |-> IF update THEN SetMtime(files, path, time) ELSE files]
    ELSE IF ArchiveExists(path, files) THEN
        [exists |-> TRUE, fs |-> files]
    ELSE
        [exists |-> FALSE, fs |-> files]

-----------------------------------------------------------------------------
(* file_versions: the version resolver, a generator *)

RECURSIVE InsertDesc(_, _)
\* insert v in a descending list, after the members equal to it (sorted is stable)
InsertDesc(v, s) ==
    IF s = <<>> THEN <<v>>
    ELSE IF Head(s) >= v THEN <<Head(s)>> \o InsertDesc(v, Tail(s))
    ELSE <<v>> \o s

\* a resolver that trusts the order the data store lists the versions in
SortedDesc_unsorted(s) == s

RECURSIVE SortedDesc(_)
\* sorted(file.versions, key=lambda x: x.versionNumber, reverse=True)
SortedDesc(s) ==
    IF s = <<>> THEN <<>>
    ELSE LET n == Len(s) IN InsertDesc(s[n], SortedDesc(SubSeq(s, 1, n - 1)))

\* versions[1:] when num_versions == -1, versions[1:num_versions+1] otherwise
SliceVersions(versions, num_versions) ==
    IF num_versions = -1 THEN PySliceFrom(versions, 1)
    ELSE PySlice(versions, 1, num_versions + 1)

\* the frame of a generator on which next() was never called
GenFresh == [pos |-> "start", rest |-> <<>>, prev |-> 0]

\* a resolver whose loop does not compare neighbouring version numbers
NotContiguous_unchecked(prev, v) == FALSE

\* the loop's test of one older version: prev - v.versionNumber != 1
NotContiguous(prev, v) == prev - v /= 1

\* a resolver that does not compare the newest listed version with the
\* file's own version number
FileVersionsNext_unchecked(g, file, num_versions) ==
    IF g.pos = "start" THEN
        [kind |-> "yield", value |-> file.versionNumber,
         gen |-> [pos |-> "loop",
                  rest |-> SliceVersions(SortedDesc(file.versions), num_versions),
                  prev |-> file.versionNumber]]
    ELSE IF g.pos = "loop" THEN
        IF g.rest = <<>> THEN
            [kind |-> "stop", value |-> 0, gen |-> [g EXCEPT !.pos = "ended"]]
        ELSE IF NotContiguous(g.prev, Head(g.rest)) THEN
            [kind |-> "raise", value |-> 0, gen |-> [g EXCEPT !.pos = "ended"]]
        ELSE
            [kind |-> "yield", value |-> Head(g.rest),
             gen |-> [pos |-> "loop", rest |-> Tail(g.rest), prev |-> Head(g.rest)]]
    ELSE
        [kind |-> "stop", value |-> 0, gen |-> g]

\* a resolver that builds the whole list before it hands out the first
\* version: a gap among the versions to consume raises at once
FileVersionsNext_eager(g, file, num_versions) ==
    IF g.pos = "start" THEN
        LET versions == SortedDesc(file.versions)
            rest == SliceVersions(versions, num_versions)
            all == <<file.versionNumber>> \o rest
        IN
        IF versions = <<>> THEN
            [kind |-> "raise", value |-> 0, gen |-> [g EXCEPT !.pos = "ended"]]
        ELSE IF versions[1] /= file.versionNumber THEN
            [kind |-> "raise", value |-> 0, gen |-> [g EXCEPT !.pos = "ended"]]
        ELSE IF \E k \in 1 .. (Len(all) - 1) : NotContiguous(all[k], all[k + 1]) THEN
            [kind |-> "raise", value |-> 0, gen |-> [g EXCEPT !.pos = "ended"]]
        ELSE
            [kind |-> "yield", value |-> file.versionNumber,
             gen |-> [pos |-> "loop", rest |-> rest, prev |-> file.versionNumber]]
    ELSE IF g.pos = "loop" THEN
        IF g.rest = <<>> THEN
            [kind |-> "stop", value |-> 0, gen |-> [g EXCEPT !.pos = "ended"]]
        ELSE
            [kind |-> "yield", value |-> Head(g.rest),
             gen |-> [pos |-> "loop", rest |-> Tail(g.rest), prev |-> Head(g.rest)]]
    ELSE
        [kind |-> "stop", value |-> 0, gen |-> g]

\* One next() on the generator of file_versions(file, num_versions), where file
\* is [versionNumber, versions].  The result says what the consumer gets:
\* a yielded version number, an exception, or the end of the sequence.
FileVersionsNext(g, file, num_versions) ==
    IF g.pos = "start" THEN
        LET versions == SortedDesc(file.versions) IN
        IF versions = <<>> THEN
            \* versions[0] on an empty list: IndexError
            [kind |-> "raise", value |-> 0, gen |-> [g EXCEPT !.pos = "ended"]]
        ELSE IF versions[1] /= file.versionNumber THEN
            [kind |-> "raise", value |-> 0, gen |-> [g EXCEPT !.pos = "ended"]]
        ELSE
            [kind |-> "yield", value |-> file.versionNumber,
             gen |-> [pos |-> "loop",
                      rest |-> SliceVersions(versions, num_versions),
                      prev |-> file.versionNumber]]
    ELSE IF g.pos = "loop" THEN
        IF g.rest = <<>> THEN
            [kind |-> "stop", value |-> 0, gen |-> [g EXCEPT !.pos = "ended"]]
        ELSE IF NotContiguous(g.prev, Head(g.rest)) THEN
            [kind |-> "raise", value |-> 0, gen |-> [g EXCEPT !.pos = "ended"]]
        ELSE
            [kind |-> "yield", value |-> Head(g.rest),
             gen |-> [pos |-> "loop", rest |-> Tail(g.rest), prev |-> Head(g.rest)]]
    ELSE
        \* a generator that returned or raised is exhausted
        [kind |-> "stop", value |-> 0, gen |-> g]

-----------------------------------------------------------------------------
(* Counter *)

\* Counter(): saved, skipped, errored
Counter0 == [saved |-> 0, skipped |-> 0, errored |-> 0]

\* a Counter.__add__ that leaves out the other side's errored
CounterAdd_lossy(a, b) ==
    [saved |-> a.saved + b.saved,
     skipped |-> a.skipped + b.skipped,
     errored |-> a.errored]

\* Counter.__add__ / __iadd__
CounterAdd(a, b) ==
    [saved |-> a.saved + b.saved,
     skipped |-> a.skipped + b.skipped,
     errored |-> a.errored + b.errored]

\* Counter(saved=1), Counter(skipped=1)
Saved1 == [Counter0 EXCEPT !.saved = 1]
Skipped1 == [Counter0 EXCEPT !.skipped = 1]

\* counter.errored += 1
Errored1(counter) == [counter EXCEPT !.errored = @ + 1]

-----------------------------------------------------------------------------
(* The data store the run walks: one project, its root folder R holding the *)
(* design files A and B and the sub-folder S, which holds the file C that is *)
(* no design.  A's design has a sketch in its root component and one in the  *)
(* component of its only occurrence; B's design has no sketch.               *)
(* A second project is the fixture of test.py: its root folder T holds the   *)
(* one design file F, whose root component has one sketch and one occurrence *)
(* of a component without sketches.                                          *)

ProjectIds == <<"p1", "p2">>

\* project.rootFolder
RootFolder(project) == IF project = "p2" THEN "T" ELSE "R"

\* folder.name (folder.id is the folder's token itself)
FolderName(folder) ==
    CASE folder = "R" -> <<"R">> [] folder = "T" -> <<"T">> [] OTHER -> <<"S">>

\* folder.dataFiles
DataFiles(folder) ==
    CASE folder = "R" -> <<"A", "B">> [] folder = "T" -> <<"F">>
      [] OTHER -> <<"C">>

\* folder.dataFolders
DataFolders(folder) == IF folder = "R" THEN <<"S">> ELSE <<>>

AllFolders == {"R", "S", "T"}
AllFiles == {"A", "B", "C", "F"}

\* file.name
FileName(file) ==
    CASE file = "A" -> <<"a">> [] file = "B" -> <<"b">> [] file = "C" -> <<"c">>
      [] OTHER -> <<"f">>

\* file.fileExtension
FileExtension(file) == IF file = "C" THEN "pdf" ELSE "f3d"

\* file.versionNumber of the file the folder lists: its current version
VersionNumber(file, st) == IF file \in {"A", "F"} THEN st.versionNumber ELSE 1

\* file.versions: the version numbers, in the order the data store lists them
Versions(file, st) == IF file \in {"A", "F"} THEN st.versions ELSE <<1>>

\* file.dateModified of a version
DateModified(file, version) == "modified " \o file \o ToString(version)

\* the design's rootComponent (the same in every version of a file)
RootComponentOf(file) ==
    CASE file = "A" -> "a0" [] file = "F" -> "f0" [] OTHER -> "b0"

\* component.name
ComponentName(component) ==
    CASE component = "a0" -> <<"k">> [] component = "a1" -> <<"c">>
      [] component = "f0" -> <<"m">> [] component = "f1" -> <<"n">>
      [] OTHER -> <<"b">>

\* component.sketches
Sketches(component) ==
    CASE component = "a0" -> <<"s1">> [] component = "a1" -> <<"s2">>
      [] component = "f0" -> <<"t1">>
      [] OTHER -> <<>>

\* sketch.name: both sketches of A are named alike
SketchName(sketch) == <<"s", "k">>

\* component.occurrences
Occurrences(component) ==
    CASE component = "a0" -> <<"o1">> [] component = "f0" -> <<"o2">>
      [] OTHER -> <<>>

\* occurrence.name, as the application names occurrences: component:index
OccurrenceName(occurrence) == <<"c", ":", "1">>

\* occurrence.component
OccurrenceComponent(occurrence) == IF occurrence = "o2" THEN "f1" ELSE "a1"

RECURSIVE SetToAscSeq(_)
\* the members of a set of numbers, smallest first
SetToAscSeq(S) ==
    IF S = {} THEN <<>>
    ELSE LET m == CHOOSE x \in S : \A y \in S : x <= y
         IN  <<m>> \o SetToAscSeq(S \ {m})

\* what A may report: it is at version MaxVersion, and the store lists any of
\* the versions 1 .. MaxVersion, oldest first
Stores ==
    {[versionNumber |-> MaxVersion, versions |-> SetToAscSeq(S)] :
        S \in SUBSET (1 .. MaxVersion)}

-----------------------------------------------------------------------------
(* Format, Ctx and how a Ctx comes to be *)

\* the members of the Format enum, by name
Formats == {"F3D", "STEP", "STL", "IGES", "SAT", "SMT", "TMF"}

\* format.value; something that is no member of Format is taken to have a
\* value of its own
FormatValue(format) ==
    CASE format = "F3D" -> "f3d" [] format = "STEP" -> "step"
      [] format = "STL" -> "stl" [] format = "IGES" -> "igs"
      [] format = "SAT" -> "sat" [] format = "SMT" -> "smt"
      [] format = "TMF" -> "3mf" [] OTHER -> "obj"

\* the values of the Format enum: the keys of FormatFromName
FormatValues == {FormatValue(x) : x \in Formats}

\* FormatFromName[value], for a value that is a key
FormatFromName(value) == CHOOSE x \in Formats : FormatValue(x) = value

VERSION_SEPARATOR == "_"

\* Python lists and sets: equal only to a value of the same kind
PyList(items) == [kind |-> "list", items |-> items]
PySet(items) == [kind |-> "set", items |-> items]

\* a == b
PyEq(a, b) == a.kind = b.kind /\ a.items = b.items

\* x in v
PyIn(x, v) ==
    IF v.kind = "list" THEN \E i \in 1 .. Len(v.items) : v.items[i] = x
    ELSE x \in v.items

RECURSIVE SetToSeq(_)
\* list(v) of a set: its members in some order
SetToSeq(S) ==
    IF S = {} THEN <<>>
    ELSE LET m == CHOOSE x \in S : TRUE IN <<m>> \o SetToSeq(S \ {m})

\* list(v)
ToPyList(v) == IF v.kind = "list" THEN v ELSE PyList(SetToSeq(v.items))

\* set(v)
ToPySet(v) ==
    IF v.kind = "set" THEN v
    ELSE PySet({v.items[i] : i \in 1 .. Len(v.items)})

\* make_projects_folders(inputs): the dialog's selected list items, which are
\* projects (show_folders off: the folder id is None) or project/folder pairs
\* of the root folder and its direct sub-folders (show_folders on)
MakeProjectsFolders(selection) ==
    LET picked(p) == {it \in selection.picked : it[1] = p}
        chosen == SelectSeq(ProjectIds, LAMBDA p : picked(p) /= {})
    IN  [i \in 1 .. Len(chosen) |->
            [project |-> chosen[i],
             folder_ids |->
                IF \E it \in picked(chosen[i]) : it[2] = "None"
                THEN PyList(<<>>)
                ELSE PySet({it[2] : it \in picked(chosen[i])})]]

\* Ctx.to_dict: the folder as a string, the formats by value, each folder
\* filter as a list; the flags and num_versions are kept as they are
ToDict(ctx) ==
    [ctx EXCEPT !.folder = [str |-> @],
                !.formats = [i \in 1 .. Len(@) |-> FormatValue(@[i])],
                !.projects_folders =
        [i \in 1 .. Len(@) |-> [@[i] EXCEPT !.folder_ids = ToPyList(@)]]]

\* Ctx.from_dict, for formats that FormatFromName knows: the folder as a
\* Path, the formats by member, each folder filter as a set
FromDict(d) ==
    [d EXCEPT !.folder = @.str,
              !.formats = [i \in 1 .. Len(@) |-> FormatFromName(@[i])],
              !.projects_folders =
        [i \in 1 .. Len(@) |-> [@[i] EXCEPT !.folder_ids = ToPySet(@)]]]

\* an extend that hands the Ctx on as it is
Extend_same(folder, other) == folder

\* ctx.extend(other); of a Ctx only the folder changes along a branch, so a
\* frame keeps the folder of its Ctx and reads everything else from cfg
Extend(folder, other) == Join(folder, other)

\* the selections of the dialog that are modelled
DialogSelections ==
    { [show_folders |-> FALSE, picked |-> {<<"p1", "None">>}],
      [show_folders |-> TRUE, picked |-> {<<"p1", "R">>}],
      [show_folders |-> TRUE, picked |-> {<<"p1", "S">>}] }

\* the export types selected in the dialog, in the modelled runs
FormatLists == {<<"f3d">>, <<"f3d", "step">>}

\* the Ctx ExporterCommandExecuteHandler.notify builds from the dialog
DialogCtx(selection, formats, save_sketches, num_versions) ==
    [folder |-> <<"out">>,
     formats |-> [i \in 1 .. Len(formats) |-> FormatFromName(formats[i])],
     projects_folders |-> MakeProjectsFolders(selection),
     unhide_all |-> TRUE,
     save_sketches |-> save_sketches,
     num_versions |-> num_versions]

\* the Ctx values a run starts from: built by the dialog, or reloaded from the
\* dictionary an earlier run logged (Template.py)
Configs ==
    LET dialog == {DialogCtx(sel, f, sk, n) :
                      sel \in DialogSelections, f \in FormatLists,
                      sk \in BOOLEAN, n \in {-1, 0, 1}}
    IN  dialog \cup {FromDict(ToDict(c)) : c \in dialog}

\* main's choice of the folders to visit for one project
FoldersToVisit(project, folder_ids) ==
    LET root == RootFolder(project) IN
    IF PyEq(folder_ids, PyList(<<>>)) THEN
        <<[folder |-> root, recurse |-> TRUE]>>
    ELSE IF PyEq(folder_ids, PyList(<<root>>)) THEN
        <<[folder |-> root, recurse |-> FALSE]>>
    ELSE
        LET sel == SelectSeq(DataFolders(root), LAMBDA x : PyIn(x, folder_ids))
        IN  [i \in 1 .. Len(sel) |-> [folder |-> sel[i], recurse |-> TRUE]]

-----------------------------------------------------------------------------
(* History *)

\* one entry of the history: what was done (op), for which file and version,
\* on what (a format, a sketch, a folder, a component), at which output path,
\* and what came of it
Ev(op, file, version, what, path, res) ==
    [op |-> op, file |-> file, version |-> version, what |-> what,
     path |-> path, res |-> res]

-----------------------------------------------------------------------------
(* The filesystem and the application, as the run acts on them *)

\* an external export call creates path, stamped with the time of the call
WriteFile(files, path) ==
    [p \in (DOMAIN files) \cup {path} |-> IF p = path THEN "now" ELSE files[p]]

\* what an external export call followed by set_mtime can come to: both
\* succeed, the export call raises (nothing is written), or the file is
\* written and set_mtime raises
ExportOutcomes == {"ok", "call_raise", "mtime_raise"}

\* what doc.open() can come to on a handle that holds no document:
\* the document is opened and activated, documents.open raises (the handle
\* stays empty), or the document is opened and stored and activate() or
\* unhide_all_in_document raises
OpenOutcomes == {"ok", "open_raise", "activate_raise"}

\* the outcomes that are failures count against MaxFailures
Allowed(outcomes, failed) ==
    IF failed < MaxFailures THEN outcomes ELSE outcomes \cap {"ok"}

-----------------------------------------------------------------------------
(* LazyDocument *)

\* LazyDocument(ctx, file): _document is None
NewLazyDocument(file, version) ==
    [file |-> file, version |-> version, document |-> FALSE]

\* LazyDocument.open() without its early return: it opens the document
\* whether or not it holds one
LazyOpen_always(doc, outcome) ==
    [doc |-> [doc EXCEPT !.document = @ \/ outcome /= "open_raise"],
     opened |-> outcome /= "open_raise",
     raised |-> outcome /= "ok",
     events |-> <<Ev("open", doc.file, doc.version, "", <<>>, outcome)>>]

\* LazyDocument.open(): the handle after it, whether the application now has
\* the document open, whether the call raised, and the history of it
LazyOpen(doc, outcome) ==
    IF doc.document THEN
        [doc |-> doc, opened |-> FALSE, raised |-> FALSE, events |-> <<>>]
    ELSE
        [doc |-> [doc EXCEPT !.document = outcome /= "open_raise"],
         opened |-> outcome /= "open_raise",
         raised |-> outcome /= "ok",
         events |-> <<Ev("open", doc.file, doc.version, "", <<>>, outcome)>>]

\* a LazyDocument whose __exit__ does not close
LazyClose_leak(doc, open) == [open |-> open, events |-> <<>>]

\* LazyDocument.__exit__ / close(): the documents open after it and the
\* history of it
LazyClose(doc, open) ==
    IF ~doc.document THEN [open |-> open, events |-> <<>>]
    ELSE [open |-> open \ {<<doc.file, doc.version>>},
          events |-> <<Ev("close", doc.file, doc.version, "", <<>>, "ok")>>]

-----------------------------------------------------------------------------
(* export_sketch and export_file *)

\* the output path of export_sketch
SketchPath(folder, sketch) ==
    Join(folder, SanitizeFilename(SketchName(sketch)) \o ".dxf")

\* export_filename(ctx, format, file)
ExportFilename(folder, format, file, version) ==
    Join(folder, SanitizeFilename(FileName(file)) \o VERSION_SEPARATOR \o "v"
                     \o ToString(version) \o "." \o FormatValue(format))

\* an export call that writes nothing
CallExport_nothing(call, doc, what, path, files, outcome) ==
    [fs |-> files, raised |-> outcome /= "ok", events |-> <<>>]

\* the export call and set_mtime that end export_file and export_sketch
CallExport(call, doc, what, path, files, outcome) ==
    [fs |-> CASE outcome = "ok" ->
                    SetMtime(WriteFile(files, path), path,
                             DateModified(doc.file, doc.version))
              [] outcome = "mtime_raise" -> WriteFile(files, path)
              [] OTHER -> files,
     raised |-> outcome /= "ok",
     events |-> <<Ev(call, doc.file, doc.version, what, path, outcome)>>]

\* export_sketch(ctx, doc, component, sketch): the Counter it returns unless
\* it raised, the filesystem after it, and the history of it
ExportSketch(folder, doc, sketch, files, outcome) ==
    LET output_path == SketchPath(folder, sketch)
        chk == OutputPathExists(output_path, files,
                                DateModified(doc.file, doc.version),
                                update_existing_file_times)
        call == CallExport("saveAsDXF", doc, sketch, output_path, chk.fs, outcome)
    IN  IF chk.exists THEN
            [counter |-> Skipped1, raised |-> FALSE, fs |-> chk.fs,
             path |-> output_path, events |-> <<>>]
        ELSE
            [counter |-> Saved1, raised |-> call.raised, fs |-> call.fs,
             path |-> output_path, events |-> call.events]

\* an export_file that opens the document before it consults the skip
\* policy
ExportFile_eager(folder, format, doc, files, outcome) ==
    LET output_path == ExportFilename(folder, format, doc.file, doc.version)
        chk == OutputPathExists(output_path, files,
                                DateModified(doc.file, doc.version),
                                update_existing_file_times)
        op == LazyOpen(doc, IF outcome \in {"open_raise", "activate_raise"}
                            THEN outcome ELSE "ok")
        call == CallExport("execute", doc, format, output_path, chk.fs, outcome)
    IN  IF op.raised THEN
            [counter |-> Counter0, raised |-> TRUE, fs |-> chk.fs, doc |-> op.doc,
             opened |-> op.opened, path |-> output_path, events |-> op.events]
        ELSE IF chk.exists THEN
            [counter |-> Skipped1, raised |-> FALSE, fs |-> chk.fs, doc |-> op.doc,
             opened |-> op.opened, path |-> output_path, events |-> op.events]
        ELSE
            [counter |-> Saved1, raised |-> call.raised, fs |-> call.fs,
             doc |-> op.doc, opened |-> op.opened, path |-> output_path,
             events |-> op.events \o call.events]

\* export_file(ctx, format, doc): as above, with the handle after it and
\* whether the application got a document opened.  outcome is what doc.open()
\* comes to when it fails, and what the export comes to otherwise.
ExportFile(folder, format, doc, files, outcome) ==
    LET output_path == ExportFilename(folder, format, doc.file, doc.version)
        chk == OutputPathExists(output_path, files,
                                DateModified(doc.file, doc.version),
                                update_existing_file_times)
        op == LazyOpen(doc, IF outcome \in {"open_raise", "activate_raise"}
                            THEN outcome ELSE "ok")
        call == CallExport("execute", doc, format, output_path, chk.fs, outcome)
    IN  IF chk.exists THEN
            [counter |-> Skipped1, raised |-> FALSE, fs |-> chk.fs, doc |-> doc,
             opened |-> FALSE, path |-> output_path, events |-> <<>>]
        ELSE IF op.raised THEN
            [counter |-> Counter0, raised |-> TRUE, fs |-> chk.fs, doc |-> op.doc,
             opened |-> op.opened, path |-> output_path, events |-> op.events]
        ELSE IF format \notin Formats THEN
            \* raise Exception(f'Got unknown export format {format}')
            [counter |-> Counter0, raised |-> TRUE, fs |-> chk.fs, doc |-> op.doc,
             opened |-> op.opened, path |-> output_path, events |-> op.events]
        ELSE
            [counter |-> Saved1, raised |-> call.raised, fs |-> call.fs,
             doc |-> op.doc, opened |-> op.opened, path |-> output_path,
             events |-> op.events \o call.events]

\* the outcomes export_file can come to: none to choose when the output is
\* skipped; doc.open() can fail only on a handle that holds no document; the
\* export call is not reached for something that is no member of Format
ExportFileOutcomes(folder, format, doc, files) ==
    IF OutputPathExists(ExportFilename(folder, format, doc.file, doc.version),
                        files, "", FALSE).exists
    THEN {"ok"}
    ELSE (IF format \in Formats THEN ExportOutcomes ELSE {"ok"})
            \cup (IF doc.document THEN {} ELSE OpenOutcomes)

\* the outcomes export_sketch can come to
ExportSketchOutcomes(folder, sketch, files) ==
    IF OutputPathExists(SketchPath(folder, sketch), files, "", FALSE).exists
    THEN {"ok"}
    ELSE ExportOutcomes

-----------------------------------------------------------------------------
(* The frames of the calls in progress *)

Top(s) == s[Len(s)]
Pop(s) == SubSeq(s, 1, Len(s) - 1)
SetTop(s, f) == [s EXCEPT ![Len(s)] = f]

\* visit_folder(ctx, folder, recurse) on entry: new_ctx, counter, and the
\* positions of its two loops; returned and caught keep the history of the
\* frame: the sum of the Counters its calls returned, and how many exceptions
\* its except clause caught
NewFolderFrame(folder_of_ctx, folder, recurse) ==
    [folder |-> folder,
     ctx |-> Extend(folder_of_ctx, SanitizeFilename(FolderName(folder))),
     recurse |-> recurse, fi |-> 1, si |-> 1,
     counter |-> Counter0, returned |-> Counter0, caught |-> 0]

\* counter += <the Counter a call returned>
FolderAdd(frame, c) ==
    [frame EXCEPT !.counter = CounterAdd(@, c), !.returned = CounterAdd(@, c)]

\* the for loop over file_versions(file, ...) ended: on to the next file
FolderFileDone(frame) == [frame EXCEPT !.fi = @ + 1]

\* visit_folder with its try around the loop over the files: the exception
\* ends the folder
FolderCatch_abort(frame) ==
    [frame EXCEPT !.counter = Errored1(@), !.caught = @ + 1,
                  !.fi = Len(DataFiles(frame.folder)) + 1, !.recurse = FALSE]

\* the except clause of visit_folder: counter.errored += 1, and on to the
\* next file
FolderCatch(frame) ==
    [frame EXCEPT !.counter = Errored1(@), !.caught = @ + 1, !.fi = @ + 1]

\* visit_file(ctx, file) on entry
NewVisit(folder_of_ctx, file, version) ==
    [file |-> file, version |-> version, ctx |-> folder_of_ctx,
     doc |-> NewLazyDocument(file, version), fi |-> 1, counter |-> Counter0]

\* no visit_file in progress
VfNone == NewVisit(<<>>, "", 0)

\* visit_file with its try around the loop over the formats: the exception
\* ends the loop
AfterFormat_abort(frame, r) ==
    [frame EXCEPT !.doc = r.doc,
                  !.fi = IF r.raised THEN Len(cfg.formats) + 1 ELSE @ + 1,
                  !.counter = IF r.raised THEN Errored1(@)
                              ELSE CounterAdd(@, r.counter)]

\* the loop over ctx.formats after export_file returned or raised:
\* counter += the Counter returned, or counter.errored += 1 in the except
\* clause; either way on to the next format
AfterFormat(frame, r) ==
    [frame EXCEPT !.doc = r.doc,
                  !.fi = @ + 1,
                  !.counter = IF r.raised THEN Errored1(@)
                              ELSE CounterAdd(@, r.counter)]

\* visit_sketches(ctx, doc, component) on entry
NewSketchFrame(folder_of_ctx, component) ==
    [component |-> component, ctx |-> folder_of_ctx, si |-> 1, oi |-> 1,
     counter |-> Counter0]

\* visit_sketches with its try around its loops: the exception ends the
\* visit of the component
AfterSketch_abort(frame, r) ==
    [frame EXCEPT !.si = IF r.raised THEN Len(Sketches(frame.component)) + 1
                         ELSE @ + 1,
                  !.oi = IF r.raised THEN Len(Occurrences(frame.component)) + 1
                         ELSE @,
                  !.counter = IF r.raised THEN Errored1(@)
                              ELSE CounterAdd(@, r.counter)]

\* the loop over component.sketches after export_sketch returned or raised
AfterSketch(frame, r) ==
    [frame EXCEPT !.si = @ + 1,
                  !.counter = IF r.raised THEN Errored1(@)
                              ELSE CounterAdd(@, r.counter)]

\* how a leaf export was counted
CountedAs(r) ==
    IF r.raised THEN "errored"
    ELSE IF r.counter = Skipped1 THEN "skipped" ELSE "saved"

\* the file object the innermost folder loop is at
CurFile == DataFiles(Top(fstack).folder)[Top(fstack).fi]

\* that file as file_versions reads it
CurFileVersions ==
    [versionNumber |-> VersionNumber(CurFile, store),
     versions |-> Versions(CurFile, store)]

-----------------------------------------------------------------------------
(* main *)

hvars == <<svars, vvars>>

\* the for loop of main takes the next project and selects its folders
MainNextProject ==
    /\ pc = "main"
    /\ mainf.queue = <<>>
    /\ mainf.items /= <<>>
    /\ LET item == Head(mainf.items) IN
        mainf' = [mainf EXCEPT !.items = Tail(@),
                               !.queue = FoldersToVisit(item.project, item.folder_ids)]
    /\ UNCHANGED <<cfg, store, fs, pc, fstack, gen, vf, sstack, openDocs,
                   failures, log, hvars>>

\* main calls visit_folder for the next selected folder of the project
MainVisitFolder ==
    /\ pc = "main"
    /\ mainf.queue /= <<>>
    /\ LET q == Head(mainf.queue)
           f == NewFolderFrame(cfg.folder, q.folder, q.recurse)
       IN  /\ fstack' = <<f>>
           /\ log' = Append(log, Ev("visit_folder", "", 0, q.folder, f.ctx,
                                    IF q.recurse THEN "recurse" ELSE "flat"))
    /\ mainf' = [mainf EXCEPT !.queue = Tail(@)]
    /\ pc' = "folder"
    /\ UNCHANGED <<cfg, store, fs, gen, vf, sstack, openDocs, failures, hvars>>

\* main returns its Counter
MainReturn ==
    /\ pc = "main"
    /\ mainf.queue = <<>>
    /\ mainf.items = <<>>
    /\ pc' = "done"
    /\ log' = Append(log, Ev("return_main", "", 0, "", <<>>, ""))
    /\ UNCHANGED <<cfg, store, fs, mainf, fstack, gen, vf, sstack, openDocs,
                   failures, hvars>>

-----------------------------------------------------------------------------
(* visit_folder *)

FilesLeft(frame) == frame.fi <= Len(DataFiles(frame.folder))
SubFoldersLeft(frame) ==
    frame.recurse /\ frame.si <= Len(DataFolders(frame.folder))

\* the loop over folder.dataFiles takes the next file: file_versions(file,
\* ctx.num_versions) makes a generator
FolderNextFile ==
    /\ pc = "folder"
    /\ FilesLeft(Top(fstack))
    /\ gen' = GenFresh
    /\ pc' = "versions"
    /\ log' = Append(log, Ev("file", CurFile, 0, Top(fstack).folder, <<>>, ""))
    /\ UNCHANGED <<cfg, store, fs, mainf, fstack, vf, sstack, openDocs,
                   failures, hvars>>

\* a visit_folder that does not wait for the loop over its files: the
\* sub-folder is visited while files are left
FolderNextSub_eager ==
    /\ pc = "folder"
    /\ SubFoldersLeft(Top(fstack))
    /\ LET top == Top(fstack)
           sub == DataFolders(top.folder)[top.si]
           f == NewFolderFrame(top.ctx, sub, TRUE)
       IN  /\ fstack' = Append(SetTop(fstack, [top EXCEPT !.si = @ + 1]), f)
           /\ log' = Append(log, Ev("visit_folder", "", 0, sub, f.ctx, "recurse"))
    /\ UNCHANGED <<cfg, store, fs, pc, mainf, gen, vf, sstack, openDocs,
                   failures, hvars>>

\* the loop over folder.dataFolders calls visit_folder(new_ctx, sub_folder)
FolderNextSub ==
    /\ pc = "folder"
    /\ ~FilesLeft(Top(fstack))
    /\ SubFoldersLeft(Top(fstack))
    /\ LET top == Top(fstack)
           sub == DataFolders(top.folder)[top.si]
           f == NewFolderFrame(top.ctx, sub, TRUE)
       IN  /\ fstack' = Append(SetTop(fstack, [top EXCEPT !.si = @ + 1]), f)
           /\ log' = Append(log, Ev("visit_folder", "", 0, sub, f.ctx, "recurse"))
    /\ UNCHANGED <<cfg, store, fs, pc, mainf, gen, vf, sstack, openDocs,
                   failures, hvars>>

\* visit_folder returns its counter, which the caller adds to its own
FolderReturn ==
    /\ pc = "folder"
    /\ ~FilesLeft(Top(fstack))
    /\ ~SubFoldersLeft(Top(fstack))
    /\ LET top == Top(fstack) IN
        IF Len(fstack) = 1 THEN
            /\ mainf' = [mainf EXCEPT !.counter = CounterAdd(@, top.counter)]
            /\ fstack' = <<>>
            /\ pc' = "main"
        ELSE
            /\ fstack' = SetTop(Pop(fstack),
                                FolderAdd(Top(Pop(fstack)), top.counter))
            /\ pc' = "folder"
            /\ UNCHANGED mainf
    /\ log' = Append(log, Ev("return_folder", "", 0, Top(fstack).folder, <<>>, ""))
    /\ UNCHANGED <<cfg, store, fs, gen, vf, sstack, openDocs, failures, hvars>>

\* the loop over file_versions gets the next version and calls visit_file
VersionsYield ==
    /\ pc = "versions"
    /\ LET r == FileVersionsNext(gen, CurFileVersions, cfg.num_versions) IN
        /\ r.kind = "yield"
        /\ gen' = r.gen
        /\ vf' = NewVisit(Top(fstack).ctx, CurFile, r.value)
        /\ log' = Append(log, Ev("visit_file", CurFile, r.value, "", <<>>, ""))
    /\ pc' = "visit_file"
    /\ UNCHANGED <<cfg, store, fs, mainf, fstack, sstack, openDocs, failures,
                   hvars>>

\* file_versions raises: the except clause of visit_folder counts it
VersionsRaise ==
    /\ pc = "versions"
    /\ LET r == FileVersionsNext(gen, CurFileVersions, cfg.num_versions) IN
        /\ r.kind = "raise"
        /\ gen' = r.gen
    /\ log' = Append(log, Ev("catch", CurFile, 0, "file_versions", <<>>, ""))
    /\ fstack' = SetTop(fstack, FolderCatch(Top(fstack)))
    /\ pc' = "folder"
    /\ UNCHANGED <<cfg, store, fs, mainf, vf, sstack, openDocs, failures, hvars>>

\* file_versions is exhausted: the loop over the file's versions ends
VersionsStop ==
    /\ pc = "versions"
    /\ LET r == FileVersionsNext(gen, CurFileVersions, cfg.num_versions) IN
        /\ r.kind = "stop"
        /\ gen' = r.gen
    /\ fstack' = SetTop(fstack, FolderFileDone(Top(fstack)))
    /\ pc' = "folder"
    /\ UNCHANGED <<cfg, store, fs, mainf, vf, sstack, openDocs, failures, log,
                   hvars>>

-----------------------------------------------------------------------------
(* visit_file *)

\* visit_file on a file that is no design: return Counter(skipped=1)
VisitFileSkip ==
    /\ pc = "visit_file"
    /\ FileExtension(vf.file) /= "f3d"
    /\ fstack' = SetTop(fstack, FolderAdd(Top(fstack), Skipped1))
    /\ vf' = VfNone
    /\ pc' = "versions"
    /\ log' = Append(log, Ev("return_file", vf.file, vf.version, "", <<>>, "skipped"))
    /\ UNCHANGED <<cfg, store, fs, mainf, gen, sstack, openDocs, failures, hvars>>

\* visit_file without its test of the extension: any file enters the with
\* block
VisitFileEnter_any ==
    /\ pc = "visit_file"
    /\ pc' = IF cfg.save_sketches THEN "vf_open" ELSE "vf_formats"
    /\ UNCHANGED <<cfg, store, fs, mainf, fstack, gen, vf, sstack, openDocs,
                   failures, log, hvars>>

\* visit_file on a design enters the with block of its LazyDocument
VisitFileEnter ==
    /\ pc = "visit_file"
    /\ FileExtension(vf.file) = "f3d"
    /\ pc' = IF cfg.save_sketches THEN "vf_open" ELSE "vf_formats"
    /\ UNCHANGED <<cfg, store, fs, mainf, fstack, gen, vf, sstack, openDocs,
                   failures, log, hvars>>

\* ctx.save_sketches: doc.open(), then visit_sketches is called on the root
\* component under the extended Ctx; an exception of doc.open() leaves the
\* with block
VisitFileOpen ==
    /\ pc = "vf_open"
    /\ \E o \in Allowed(OpenOutcomes, failures) :
        LET r == LazyOpen(vf.doc, o)
            root == RootComponentOf(vf.file)
            f == NewSketchFrame(
                     Extend(vf.ctx, SanitizeFilename(ComponentName(root))), root)
        IN  /\ vf' = [vf EXCEPT !.doc = r.doc]
            /\ openDocs' = IF r.opened
                           THEN openDocs \cup {<<vf.file, vf.version>>}
                           ELSE openDocs
            /\ failures' = IF o = "ok" THEN failures ELSE failures + 1
            /\ IF r.raised THEN
                    /\ pc' = "vf_raise"
                    /\ sstack' = sstack
                    /\ log' = log \o r.events
               ELSE
                    /\ pc' = "sketches"
                    /\ sstack' = <<f>>
                    /\ log' = log \o r.events \o
                        <<Ev("visit_sketches", vf.file, vf.version, root, f.ctx, "")>>
    /\ UNCHANGED <<cfg, store, fs, mainf, fstack, gen, hvars>>

\* the loop over ctx.formats calls export_file for the next format
ExportFileStep ==
    /\ pc = "vf_formats"
    /\ vf.fi <= Len(cfg.formats)
    /\ LET format == cfg.formats[vf.fi] IN
       \E o \in Allowed(ExportFileOutcomes(vf.ctx, format, vf.doc, fs), failures) :
        \E r \in {ExportFile(vf.ctx, format, vf.doc, fs, o)} :
            /\ vf' = AfterFormat(vf, r)
            /\ fs' = r.fs
            /\ openDocs' = IF r.opened
                           THEN openDocs \cup {<<vf.file, vf.version>>}
                           ELSE openDocs
            /\ failures' = IF o = "ok" THEN failures ELSE failures + 1
            /\ log' = log \o r.events \o
                <<Ev("export_file", vf.file, vf.version, format, r.path, CountedAs(r))>>
    /\ UNCHANGED <<cfg, store, pc, mainf, fstack, gen, sstack, hvars>>

\* visit_file returns its counter: the with block is left, the document is
\* closed, and visit_folder adds the Counter to its own
VisitFileReturn ==
    /\ pc = "vf_formats"
    /\ vf.fi > Len(cfg.formats)
    /\ LET c == LazyClose(vf.doc, openDocs) IN
        /\ openDocs' = c.open
        /\ log' = log \o c.events \o
            <<Ev("return_file", vf.file, vf.version, "", <<>>, "returned")>>
    /\ fstack' = SetTop(fstack, FolderAdd(Top(fstack), vf.counter))
    /\ vf' = VfNone
    /\ pc' = "versions"
    /\ UNCHANGED <<cfg, store, fs, mainf, gen, sstack, failures, hvars>>

\* a visit_folder without its try: the exception of visit_file leaves main,
\* and the run is over without a summary
VisitFileUnwind_abort ==
    /\ pc = "vf_raise"
    /\ pc' = "aborted"
    /\ UNCHANGED <<cfg, store, fs, mainf, fstack, gen, vf, sstack, openDocs,
                   failures, log, hvars>>

\* an exception leaves the with block of visit_file: the document is closed,
\* and the except clause of visit_folder counts the exception
VisitFileUnwind ==
    /\ pc = "vf_raise"
    /\ LET c == LazyClose(vf.doc, openDocs) IN
        /\ openDocs' = c.open
        /\ log' = log \o c.events \o
            <<Ev("catch", vf.file, vf.version, "visit_file", <<>>, "")>>
    /\ fstack' = SetTop(fstack, FolderCatch(Top(fstack)))
    /\ vf' = VfNone
    /\ pc' = "folder"
    /\ UNCHANGED <<cfg, store, fs, mainf, gen, sstack, failures, hvars>>

-----------------------------------------------------------------------------
(* visit_sketches *)

SketchesLeft(frame) == frame.si <= Len(Sketches(frame.component))
OccurrencesLeft(frame) == frame.oi <= Len(Occurrences(frame.component))

\* the loop over component.sketches calls export_sketch for the next sketch
ExportSketchStep ==
    /\ pc = "sketches"
    /\ SketchesLeft(Top(sstack))
    /\ LET top == Top(sstack)
           sketch == Sketches(top.component)[top.si]
       IN
       \E o \in Allowed(ExportSketchOutcomes(top.ctx, sketch, fs), failures) :
        LET r == ExportSketch(top.ctx, vf.doc, sketch, fs, o) IN
            /\ sstack' = SetTop(sstack, AfterSketch(top, r))
            /\ fs' = r.fs
            /\ failures' = IF o = "ok" THEN failures ELSE failures + 1
            /\ log' = log \o r.events \o
                <<Ev("export_sketch", vf.file, vf.version, sketch, r.path, CountedAs(r))>>
    /\ UNCHANGED <<cfg, store, pc, mainf, fstack, gen, vf, openDocs, hvars>>

\* the loop over component.occurrences calls visit_sketches for the next one
SketchDescend ==
    /\ pc = "sketches"
    /\ ~SketchesLeft(Top(sstack))
    /\ OccurrencesLeft(Top(sstack))
    /\ LET top == Top(sstack)
           occurrence == Occurrences(top.component)[top.oi]
           f == NewSketchFrame(
                    Extend(top.ctx, SanitizeFilename(OccurrenceName(occurrence))),
                    OccurrenceComponent(occurrence))
       IN  /\ sstack' = Append(SetTop(sstack, [top EXCEPT !.oi = @ + 1]), f)
           /\ log' = Append(log, Ev("visit_sketches", vf.file, vf.version,
                                    f.component, f.ctx, ""))
    /\ UNCHANGED <<cfg, store, fs, pc, mainf, fstack, gen, vf, openDocs,
                   failures, hvars>>

\* visit_sketches returns its counter, which the caller adds to its own
SketchReturn ==
    /\ pc = "sketches"
    /\ ~SketchesLeft(Top(sstack))
    /\ ~OccurrencesLeft(Top(sstack))
    /\ LET top == Top(sstack) IN
        IF Len(sstack) = 1 THEN
            /\ vf' = [vf EXCEPT !.counter = CounterAdd(@, top.counter)]
            /\ sstack' = <<>>
            /\ pc' = "vf_formats"
        ELSE
            /\ sstack' = SetTop(Pop(sstack),
                  [Top(Pop(sstack)) EXCEPT !.counter = CounterAdd(@, top.counter)])
            /\ pc' = "sketches"
            /\ UNCHANGED vf
    /\ log' = Append(log, Ev("return_sketches", vf.file, vf.version,
                             Top(sstack).component, <<>>, ""))
    /\ UNCHANGED <<cfg, store, fs, mainf, fstack, gen, openDocs, failures, hvars>>

-----------------------------------------------------------------------------
(* A run of main *)

\* no file exists
NoFiles == [p \in {} |-> "old"]

\* outputs an earlier run left: the f3d of A's current version, and a zip
\* someone made of B's f3d before deleting it
LeftOver ==
    [p \in {ExportFilename(<<"out", "R">>, "F3D", "A", MaxVersion),
            WithName(ExportFilename(<<"out", "R">>, "F3D", "B", 1),
                     PathName(ExportFilename(<<"out", "R">>, "F3D", "B", 1)) \o ".zip")}
        |-> "old"]

\* the harnesses at rest
SIdle == sIn = "idle" /\ sOut = "idle"
VIdle == vIn = "idle" /\ vGen = "idle" /\ vOut = "idle"

\* main up to its loop: init_directory, init_logging, log(ctx.dumps())
MInit ==
    /\ cfg \in Configs
    /\ store \in Stores
    /\ fs \in {NoFiles, LeftOver}
    /\ pc = "main"
    /\ mainf = [items |-> cfg.projects_folders, queue |-> <<>>, counter |-> Counter0,
                earlier |-> [counter |-> Counter0, fs |-> NoFiles]]
    /\ fstack = <<>>
    /\ gen = GenFresh
    /\ vf = VfNone
    /\ sstack = <<>>
    /\ openDocs = {}
    /\ failures = 0
    /\ log = <<>>

\* main at rest, for the harnesses
MIdle ==
    /\ cfg = "idle" /\ store = "idle" /\ fs = NoFiles /\ pc = "idle"
    /\ mainf = "idle" /\ fstack = <<>> /\ gen = GenFresh /\ vf = VfNone
    /\ sstack = <<>> /\ openDocs = {} /\ failures = 0 /\ log = <<>>

Init == MInit /\ SIdle /\ VIdle

Next ==
    \/ MainNextProject \/ MainVisitFolder \/ MainReturn
    \/ FolderNextFile \/ FolderNextSub \/ FolderReturn
    \/ VersionsYield \/ VersionsRaise \/ VersionsStop
    \/ VisitFileSkip \/ VisitFileEnter \/ VisitFileOpen
    \/ ExportFileStep \/ VisitFileReturn \/ VisitFileUnwind
    \/ ExportSketchStep \/ SketchDescend \/ SketchReturn

Spec == Init /\ [][Next]_vars

-----------------------------------------------------------------------------
(* Reading the history *)

\* the positions of the history at which op was done
At(op) == {i \in 1 .. Len(log) : log[i].op = op}

\* the position of the latest entry of op, 0 if there is none
LastAt(op) ==
    LET at == At(op) IN
        IF at = {} THEN 0 ELSE CHOOSE i \in at : \A j \in at : j <= i

\* the history from the entry of the latest visit_file on: the visit in
\* progress or, between visits, the last one and what followed it
SinceVisit ==
    LET from == LastAt("visit_file") IN
        IF from = 0 THEN <<>> ELSE SubSeq(log, from, Len(log))

\* the entries of op in a part of the history
Only(part, op) == SelectSeq(part, LAMBDA e : e.op = op)

\* the number of entries of a part that came to res
CountRes(part, res) == Len(SelectSeq(part, LAMBDA e : e.res = res))

\* the Counter that counts each leaf export of a part once, as it came out
Tally(part) ==
    [saved |-> CountRes(part, "saved"),
     skipped |-> CountRes(part, "skipped"),
     errored |-> CountRes(part, "errored")]

\* whether the latest visit_file has returned or raised
VisitOver ==
    \E i \in 1 .. Len(SinceVisit) :
        SinceVisit[i].op \in {"return_file", "catch"}

\* the folder a file is in
ParentFolder(file) == CHOOSE f \in AllFolders :
                          \E i \in 1 .. Len(DataFiles(f)) : DataFiles(f)[i] = file

\* where in its folder's dataFiles a file is
FilePosition(file) ==
    CHOOSE i \in 1 .. Len(DataFiles(ParentFolder(file))) :
        DataFiles(ParentFolder(file))[i] = file

RECURSIVE SketchesDFS(_)
\* the sketches visit_sketches comes to from a component, in its order
SketchesDFS(component) ==
    LET occ == Occurrences(component)
        F[i \in 0 .. Len(occ)] ==
            IF i = 0 THEN <<>>
            ELSE F[i - 1] \o SketchesDFS(OccurrenceComponent(occ[i]))
    IN  Sketches(component) \o F[Len(occ)]

RECURSIVE ComponentsDFS(_)
\* the components visit_sketches comes to from a component, in its order
ComponentsDFS(component) ==
    LET occ == Occurrences(component)
        F[i \in 0 .. Len(occ)] ==
            IF i = 0 THEN <<>>
            ELSE F[i - 1] \o ComponentsDFS(OccurrenceComponent(occ[i]))
    IN  <<component>> \o F[Len(occ)]

\* the field what of each entry of a part
Whats(part) == [i \in 1 .. Len(part) |-> part[i].what]

-----------------------------------------------------------------------------
(* Claims about a run of main *)

\* C1: in visit_folder an exception from resolving a file's version chain or
\* from a visit_file of one of its versions is caught at that file: the
\* folder's Counter holds what its calls returned plus exactly one errored
\* per exception caught, and at the end of the run every later file of that
\* folder has been taken up and, when the folder was visited recursively,
\* every sub-folder of it has been visited, after the exception.
C1_FileErrorIsolated ==
    /\ \A k \in 1 .. Len(fstack) :
          fstack[k].counter =
              CounterAdd(fstack[k].returned,
                         [saved |-> 0, skipped |-> 0, errored |-> fstack[k].caught])
    /\ pc = "done" =>
        \A i \in At("catch") :
            LET folder == ParentFolder(log[i].file)
                entered == CHOOSE v \in At("visit_folder") :
                               /\ v < i
                               /\ log[v].what = folder
                               /\ \A w \in At("visit_folder") :
                                     (w < i /\ log[w].what = folder) => w <= v
            IN  /\ \A n \in (FilePosition(log[i].file) + 1) .. Len(DataFiles(folder)) :
                      \E j \in At("file") :
                          j > i /\ log[j].file = DataFiles(folder)[n]
                /\ log[entered].res = "recurse" =>
                      \A n \in 1 .. Len(DataFolders(folder)) :
                          \E j \in At("visit_folder") :
                              j > i /\ log[j].what = DataFolders(folder)[n]

\* a run in which opening A for its sketches failed: the one error is counted,
\* B is exported after it and C in the sub-folder is skipped after it
C1_Witness ==
    /\ pc = "done"
    /\ mainf.counter.errored = 1
    /\ mainf.counter.skipped = 1
    /\ mainf.counter.saved = Len(cfg.formats)
    /\ \E i \in At("catch") :
          /\ log[i].file = "A"
          /\ log[i].what = "visit_file"
          /\ \E j \in At("visit_file") : j > i /\ log[j].file = "B"
          /\ \E j \in At("visit_file") : j > i /\ log[j].file = "C"

\* C2: in visit_file, whatever came of the earlier formats, export_file is
\* invoked for every format of ctx.formats in order, and each failure of it
\* is counted as exactly one errored: the visit's Counter counts each leaf
\* export of the visit once, as it came out.
C2_FormatErrorIsolated ==
    LET since == SinceVisit
        exports == Only(since, "export_file")
    IN  /\ pc = "vf_formats" =>
            /\ Whats(exports) = SubSeq(cfg.formats, 1, vf.fi - 1)
            /\ vf.counter = CounterAdd(Tally(Only(since, "export_sketch")),
                                       Tally(exports))
        /\ (\E i \in 1 .. Len(since) :
                since[i].op = "return_file" /\ since[i].res = "returned") =>
            Whats(exports) = cfg.formats

\* the f3d export of B fails and its step export is saved all the same
C2_Witness ==
    /\ VisitOver
    /\ LET e == Only(SinceVisit, "export_file") IN
        /\ Len(e) = 2
        /\ e[1].file = "B" /\ e[1].what = "F3D" /\ e[1].res = "errored"
        /\ e[2].what = "STEP" /\ e[2].res = "saved"

OpenCalls == Only(SinceVisit, "open")
OpensStored == SelectSeq(OpenCalls, LAMBDA e : e.res /= "open_raise")
CloseCalls == Only(SinceVisit, "close")

\* how many of each there are, and whether the visit is over
LazyDocumentUse ==
    LET since == SinceVisit
        opens == Only(since, "open")
    IN  [opens |-> Len(opens),
         stored |-> Len(SelectSeq(opens, LAMBDA e : e.res /= "open_raise")),
         closes |-> Len(Only(since, "close")),
         over |-> \E i \in 1 .. Len(since) :
                     since[i].op \in {"return_file", "catch"}]

\* C4 as claimed: documents.open is called at most once for a LazyDocument;
\* if it was called, close is called exactly once before visit_file returns
\* or propagates an exception, and if it was not, close is not called.
C4_AsClaimed ==
    LET use == LazyDocumentUse IN
        /\ use.opens <= 1
        /\ ~use.over => use.closes = 0
        /\ use.over => use.closes = (IF use.opens >= 1 THEN 1 ELSE 0)

\* C4, amended: documents.open returns a document at most once for a
\* LazyDocument (a call that raised may be followed by another call, for a
\* later format); if a document was returned, close is called exactly once
\* before visit_file returns or propagates an exception, and not before; if
\* none was returned, close is not called.
C4_OpenedOnceClosedOnce ==
    LET use == LazyDocumentUse IN
        /\ use.stored <= 1
        /\ ~use.over => use.closes = 0
        /\ use.over => use.closes = use.stored

\* documents.open raised for the first format and returned the document for
\* the second; the visit is over and the document was closed once
C4_Witness ==
    /\ VisitOver
    /\ Len(OpenCalls) = 2
    /\ OpenCalls[1].res = "open_raise"
    /\ OpenCalls[2].res = "ok"
    /\ Len(CloseCalls) = 1

\* C5: in every state of a run at most one document is open, that of the
\* file-version visit_file is at; none is open outside visit_file, so the
\* document of one file-version is closed before that of another is opened.
C5_AtMostOneDocumentOpen ==
    /\ Cardinality(openDocs) <= 1
    /\ openDocs \subseteq {<<vf.file, vf.version>>}
    /\ pc \in {"main", "folder", "versions", "visit_file", "done"} => openDocs = {}

\* the document of an older version of A is open, after that of a newer
\* version was opened and closed
C5_Witness ==
    /\ openDocs = {<<"A", MaxVersion - 1>>}
    /\ \E i \in At("close") : log[i].file = "A" /\ log[i].version = MaxVersion

-----------------------------------------------------------------------------
(* A run of main and a second run after it *)

\* run_main is executed again with the same Ctx on the same hub and the same
\* output directory: main starts anew; earlier keeps what the first run
\* returned and the files it left
Rerun ==
    /\ pc = "done"
    /\ At("rerun") = {}
    /\ pc' = "main"
    /\ mainf' = [items |-> cfg.projects_folders, queue |-> <<>>,
                 counter |-> Counter0,
                 earlier |-> [counter |-> mainf.counter, fs |-> fs]]
    /\ log' = Append(log, Ev("rerun", "", 0, "", <<>>, ""))
    /\ UNCHANGED <<cfg, store, fs, fstack, gen, vf, sstack, openDocs, failures,
                   hvars>>

NextRerun == Next \/ Rerun

SpecRerun == Init /\ [][NextRerun]_vars

\* the external export calls of the history
ExportCalls == At("execute") \cup At("saveAsDXF")

\* whether path, or an archive of it, was there when the second run began
ExistedBefore(path) ==
    path \in DOMAIN mainf.earlier.fs \/ ArchiveExists(path, mainf.earlier.fs)

\* C6: in a second run with the same inputs, no external export call is made
\* for an output that was there when the run began, itself or as an archive
\* of it (every output an export call of the first run wrote was there); each
\* such output is counted as skipped; and when the first run returned no
\* errored the second run returns saved = 0.
C6_RerunSkipsExisting ==
    \A m \in At("rerun") :
        /\ \A i \in ExportCalls :
              (i < m /\ log[i].res /= "call_raise") =>
                  log[i].path \in DOMAIN mainf.earlier.fs
        /\ \A j \in ExportCalls : j > m => ~ExistedBefore(log[j].path)
        /\ \A j \in {i \in 1 .. Len(log) :
                        log[i].op \in {"export_file", "export_sketch"}} :
              (j > m /\ ExistedBefore(log[j].path)) => log[j].res = "skipped"
        /\ (pc = "done" /\ mainf.earlier.counter.errored = 0) =>
              mainf.counter.saved = 0

\* a first run that saved outputs without an error, next to an archive left
\* of B's f3d, and a second run that saved nothing and skipped them all
C6_Witness ==
    /\ pc = "done"
    /\ At("rerun") /= {}
    /\ ArchiveExists(ExportFilename(<<"out", "R">>, "F3D", "B", 1), fs)
    /\ mainf.earlier.counter.errored = 0
    /\ mainf.earlier.counter.saved >= 3
    /\ mainf.counter.saved = 0
    /\ mainf.counter.errored = 0
    /\ mainf.counter.skipped
          = mainf.earlier.counter.saved + mainf.earlier.counter.skipped

\* the leaf exports of the run: each is one item, a file-version and format
\* or a file-version and sketch
Leaves == {i \in 1 .. Len(log) : log[i].op \in {"export_file", "export_sketch"}}

\* C8 as claimed: no two distinct items of a run are given the same output
\* path.
C8_AsClaimed ==
    \A i, j \in Leaves :
        log[i].path = log[j].path =>
            /\ log[i].file = log[j].file
            /\ log[i].version = log[j].version
            /\ log[i].what = log[j].what

-----------------------------------------------------------------------------
(* The skip policy on its own: every candidate and filesystem of a small    *)
(* universe of paths                                                         *)

\* the candidate output paths
SkipCandidates == {<<"out", "R", "a_v1.f3d">>, <<"out", "R", "a_v1.step">>}

\* the paths that may exist: the candidates, archives of them, and near misses
\* (the archive suffix replacing the extension, an unknown suffix, another
\* directory)
SkipUniverse ==
    SkipCandidates \cup
    { <<"out", "R", "a_v1.f3d.zip">>, <<"out", "R", "a_v1.f3d.tar.gz">>,
      <<"out", "R", "a_v1.step.rar">>, <<"out", "R", "a_v1.zip">>,
      <<"out", "R", "a_v1.f3d.bak">>, <<"out", "S", "a_v1.f3d.zip">> }

\* the modification time the existing files carry, and the source's
OldTime == "old"
SourceTime == "source"

SInit ==
    /\ sIn \in [path : SkipCandidates,
                fs : UNION {[E -> {OldTime}] : E \in SUBSET SkipUniverse},
                update : BOOLEAN]
    /\ sOut = [status |-> "pending", fs |-> sIn.fs]
    /\ VIdle
    /\ MIdle

\* export_file / export_sketch consult the policy for their output path
SCheck ==
    /\ sOut.status = "pending"
    /\ LET r == OutputPathExists(sIn.path, sIn.fs, SourceTime, sIn.update) IN
        sOut' = [status |-> IF r.exists THEN "skipped" ELSE "proceed", fs |-> r.fs]
    /\ UNCHANGED <<sIn, vvars, mvars>>

SNext == SCheck

SpecSkip == SInit /\ [][SNext]_vars

\* the suffixes the policy treats as archives of an output
KnownArchiveSuffixes == {".zip", ".rar", ".gz", ".tar.gz", ".tar.bz2", ".tar.xz"}

\* path with suffix appended to its full name
Appended(path, suffix) == SubSeq(path, 1, Len(path) - 1) \o <<path[Len(path)] \o suffix>>

\* C7: once the policy has decided, an existing exact path means skip; a
\* missing exact path with path + known archive suffix existing means skip with
\* every modification time left as it was; neither existing means proceed.
C7_SkipPolicy ==
    sOut.status /= "pending" =>
        LET exact == sIn.path \in DOMAIN sIn.fs
            archived == \E x \in KnownArchiveSuffixes :
                            Appended(sIn.path, x) \in DOMAIN sIn.fs
        IN  /\ exact => sOut.status = "skipped"
            /\ (~exact /\ archived) => (sOut.status = "skipped" /\ sOut.fs = sIn.fs)
            /\ (~exact /\ ~archived) => (sOut.status = "proceed" /\ sOut.fs = sIn.fs)

\* only the .tar.gz archive of the candidate exists, time correction is on:
\* skipped, nothing re-stamped
C7_Witness ==
    /\ sIn.path = <<"out", "R", "a_v1.f3d">>
    /\ DOMAIN sIn.fs = {<<"out", "R", "a_v1.f3d.tar.gz">>, <<"out", "R", "a_v1.zip">>}
    /\ sIn.update
    /\ sOut.status = "skipped"
    /\ sOut.fs = sIn.fs

-----------------------------------------------------------------------------
(* The version resolver on its own: every file and count within the bounds *)

\* the values num_versions takes: -1 (all) or a count of older versions
NumVersionsChoices == (-1) .. MaxVersion

\* the version lists a data store can return: any versions, in any order
VersionLists == UNION {Perms(S) : S \in SUBSET (1 .. MaxVersion)}

VInit ==
    /\ vIn \in [versionNumber : 1 .. MaxVersion,
                versions : VersionLists,
                num_versions : NumVersionsChoices]
    /\ vGen = GenFresh
    /\ vOut = [yielded |-> <<>>, status |-> "running"]
    /\ SIdle
    /\ MIdle

\* the consumer (the for loop of visit_folder) asks for the next version and gets one
VYield ==
    /\ vOut.status = "running"
    /\ LET r == FileVersionsNext(vGen, vIn, vIn.num_versions) IN
        /\ r.kind = "yield"
        /\ vGen' = r.gen
        /\ vOut' = [vOut EXCEPT !.yielded = Append(@, r.value)]
    /\ UNCHANGED <<vIn, svars, mvars>>

\* the consumer asks for the next version and the generator raises
VRaise ==
    /\ vOut.status = "running"
    /\ LET r == FileVersionsNext(vGen, vIn, vIn.num_versions) IN
        /\ r.kind = "raise"
        /\ vGen' = r.gen
        /\ vOut' = [vOut EXCEPT !.status = "raised"]
    /\ UNCHANGED <<vIn, svars, mvars>>

\* the consumer asks for the next version and the sequence has ended
VStop ==
    /\ vOut.status = "running"
    /\ LET r == FileVersionsNext(vGen, vIn, vIn.num_versions) IN
        /\ r.kind = "stop"
        /\ vGen' = r.gen
        /\ vOut' = [vOut EXCEPT !.status = "done"]
    /\ UNCHANGED <<vIn, svars, mvars>>

VNext == VYield \/ VRaise \/ VStop

SpecVersions == VInit /\ [][VNext]_vars

\* the file's available versions are exactly versionNumber, ..., 1, in some order
FullChain(file) ==
    /\ Len(file.versions) = file.versionNumber
    /\ {file.versions[i] : i \in 1 .. Len(file.versions)} = 1 .. file.versionNumber

\* how many older versions a count of n asks for, of a file at version k
OlderWanted(k, n) == IF n = -1 THEN k - 1 ELSE Min(n, k - 1)

\* k, k-1, ... : the current version and the next `older` versions
Newest(k, older) == [i \in 1 .. (older + 1) |-> k + 1 - i]

IsPrefix(s, t) == Len(s) <= Len(t) /\ s = SubSeq(t, 1, Len(s))

\* C9: for a file whose available versions are exactly k, k-1, ..., 1, listed in
\* any order, file_versions never raises, yields the current version first and
\* then the older ones in strictly descending order, and ends after all of them
\* when num_versions = -1 and after min(num_versions, k-1) of them otherwise
\* (only the current version when num_versions = 0).
C9_FullChainYieldsNewestFirst ==
    FullChain(vIn) =>
        LET want == Newest(vIn.versionNumber,
                           OlderWanted(vIn.versionNumber, vIn.num_versions))
        IN  /\ vOut.status /= "raised"
            /\ IsPrefix(vOut.yielded, want)
            /\ vOut.status = "done" => vOut.yielded = want

\* an unsorted full chain of three versions, one older version asked for and got
C9_Witness ==
    /\ vIn.versions = <<2, 3, 1>>
    /\ vIn.versionNumber = 3
    /\ vIn.num_versions = 1
    /\ vOut.status = "done"
    /\ vOut.yielded = <<3, 2>>

\* the number of versions the consumer asks for: the current one and the
\* older ones the count allows, of those the data store lists
Consumed(file) ==
    IF file.num_versions = -1 THEN Len(file.versions)
    ELSE Min(file.num_versions + 1, Len(file.versions))

\* C10: file_versions ends normally only after yielding every version it was
\* to consume, each exactly one less than the one before it; so a chain with
\* a gap among the consumed versions (available versions 3 and 1) raises
\* instead of ending with the truncated sequence.
C10_GapRaises ==
    vOut.status = "done" =>
        /\ Len(vOut.yielded) = Consumed(vIn)
        /\ \A i \in 1 .. (Len(vOut.yielded) - 1) :
              vOut.yielded[i] - vOut.yielded[i + 1] = 1

\* versions 3 and 1 with all versions asked for: 3 is yielded, then the error
C10_Witness ==
    /\ vIn.versions = <<3, 1>>
    /\ vIn.versionNumber = 3
    /\ vIn.num_versions = -1
    /\ vOut.status = "raised"
    /\ vOut.yielded = <<3>>

-----------------------------------------------------------------------------
(* Further claims about a run of main *)

\* whether the newest version the store lists of A is not the version A
\* reports as its own
HeadMismatch ==
    /\ store.versions /= <<>>
    /\ SortedDesc(store.versions)[1] /= store.versionNumber

\* C11: when the highest version number among a file's available versions
\* differs from the file's current version number, file_versions raises
\* before it yields: no version of the file is visited or exported, the
\* exception follows the taking up of the file at once, and visit_folder
\* counts exactly one errored for the file.
C11_HeadMismatchRaises ==
    HeadMismatch =>
        /\ \A i \in 1 .. Len(log) :
              log[i].file = "A" => log[i].op \in {"file", "catch"}
        /\ \A i \in At("file") :
              (log[i].file = "A" /\ i < Len(log)) =>
                  /\ log[i + 1].op = "catch"
                  /\ log[i + 1].file = "A"
                  /\ log[i + 1].what = "file_versions"
        /\ (Len(log) > 0 /\ log[Len(log)].op = "catch" /\ log[Len(log)].file = "A") =>
              Top(fstack).counter = [saved |-> 0, skipped |-> 0, errored |-> 1]
        /\ pc = "done" =>
              Cardinality({i \in At("catch") : log[i].file = "A"})
                  = Cardinality({i \in At("file") : log[i].file = "A"})

\* the store lists versions 2 and 1 of A, which is at version MaxVersion: the
\* run counted one error for A, exported nothing of A and went on to B
C11_Witness ==
    /\ pc = "done"
    /\ HeadMismatch
    /\ Len(store.versions) >= 2
    /\ \E i \in At("catch") : log[i].file = "A" /\ log[i].what = "file_versions"
    /\ \E i \in At("visit_file") : log[i].file = "B"
    /\ mainf.counter.errored = 1

\* whether a folder filter, list or set, holds nothing
FilterEmpty(folder_ids) ==
    IF folder_ids.kind = "list" THEN folder_ids.items = <<>>
    ELSE folder_ids.items = {}

\* whether a folder filter, list or set, holds folder and nothing else
FilterOnly(folder_ids, folder) ==
    IF folder_ids.kind = "list" THEN folder_ids.items = <<folder>>
    ELSE folder_ids.items = {folder}

\* whether the run has entered visit_folder on folder, recursively or not
Visited(folder, how) ==
    \E i \in At("visit_folder") : log[i].what = folder /\ log[i].res = how

RECURSIVE FoldersBelow(_)
\* a folder and every folder nested in it
FoldersBelow(folder) ==
    LET sub == DataFolders(folder)
    IN  {folder} \cup UNION {FoldersBelow(sub[i]) : i \in 1 .. Len(sub)}

\* whether the run has taken up every file of folder
FilesTakenUp(folder) ==
    \A n \in 1 .. Len(DataFiles(folder)) :
        \E i \in At("file") : log[i].file = DataFiles(folder)[n]

\* C12 as claimed: for each configured project whose folder filter is empty,
\* whether the Ctx comes from the dialog or from Ctx.from_dict, the run
\* visits the project's root folder recursively: its files and every folder
\* nested in it.
C12_AsClaimed ==
    pc = "done" =>
        \A n \in 1 .. Len(cfg.projects_folders) :
            LET item == cfg.projects_folders[n]
                root == RootFolder(item.project)
            IN  FilterEmpty(item.folder_ids) =>
                    /\ Visited(root, "recurse")
                    /\ \A f \in FoldersBelow(root) :
                          /\ \E i \in At("visit_folder") : log[i].what = f
                          /\ FilesTakenUp(f)

\* C13 as claimed: for each configured project whose folder filter holds the
\* root folder's id and nothing else, the run visits the root folder without
\* recursion: every file of the root folder is taken up and no sub-folder is
\* visited.
C13_AsClaimed ==
    pc = "done" =>
        \A n \in 1 .. Len(cfg.projects_folders) :
            LET item == cfg.projects_folders[n]
                root == RootFolder(item.project)
            IN  FilterOnly(item.folder_ids, root) =>
                    /\ Visited(root, "flat")
                    /\ FilesTakenUp(root)
                    /\ \A f \in FoldersBelow(root) \ {root} :
                          ~\E i \in At("visit_folder") : log[i].what = f

\* C14: visit_file on a file-version whose extension is not f3d returns
\* Counter(skipped=1) at once: the return follows the call in the history,
\* the folder's counter grows by one skipped, and no document is opened and
\* no export or sketch export is invoked for the file.
C14_NonDesignSkipped ==
    /\ \A i \in 1 .. Len(log) :
          FileExtension(log[i].file) /= "f3d" =>
              log[i].op \in {"file", "visit_file", "return_file"}
    /\ \A i \in At("visit_file") :
          (FileExtension(log[i].file) /= "f3d" /\ i < Len(log)) =>
              /\ log[i + 1].op = "return_file"
              /\ log[i + 1].file = log[i].file
              /\ log[i + 1].res = "skipped"
    /\ (Len(log) > 0 /\ log[Len(log)].op = "return_file"
            /\ FileExtension(log[Len(log)].file) /= "f3d") =>
          Top(fstack).counter = Skipped1
    /\ \A d \in openDocs : FileExtension(d[1]) = "f3d"

\* visit_file has just returned from C, which is a pdf, with one skipped
C14_Witness ==
    /\ Len(log) > 1
    /\ log[Len(log)].op = "return_file"
    /\ log[Len(log)].file = "C"
    /\ log[Len(log)].res = "skipped"
    /\ log[Len(log) - 1].op = "visit_file"
    /\ Top(fstack).counter.skipped = 1
    /\ cfg.save_sketches

\* the Counter a leaf of the run stands for: one export_file or export_sketch
\* as it came out, one skipped for a file that is no design, one errored for
\* an exception visit_folder caught; nothing for any other entry
LeafCounter(e) ==
    CASE e.op \in {"export_file", "export_sketch"} ->
            [saved |-> IF e.res = "saved" THEN 1 ELSE 0,
             skipped |-> IF e.res = "skipped" THEN 1 ELSE 0,
             errored |-> IF e.res = "errored" THEN 1 ELSE 0]
      [] e.op = "return_file" /\ e.res = "skipped" -> Skipped1
      [] e.op = "catch" -> [saved |-> 0, skipped |-> 0, errored |-> 1]
      [] OTHER -> Counter0

\* the positions of the history that can stand for a leaf
LeafPositions ==
    {i \in 1 .. Len(log) :
        log[i].op \in {"export_file", "export_sketch", "return_file", "catch"}}

\* what the leaves of the history come to, counted field by field
LeafTotal ==
    LET at == LeafPositions IN
        [saved |-> Cardinality({i \in at : LeafCounter(log[i]).saved = 1}),
         skipped |-> Cardinality({i \in at : LeafCounter(log[i]).skipped = 1}),
         errored |-> Cardinality({i \in at : LeafCounter(log[i]).errored = 1})]

\* the Counters the calls in progress hold: main's, one per visit_folder,
\* visit_file's, one per visit_sketches
Accumulators ==
    <<mainf.counter>> \o [k \in 1 .. Len(fstack) |-> fstack[k].counter]
        \o <<vf.counter>> \o [k \in 1 .. Len(sstack) |-> sstack[k].counter]

\* the sum of one field over a sequence of Counters
FieldSum(counters, field) ==
    LET F[k \in 0 .. Len(counters)] ==
            IF k = 0 THEN 0 ELSE F[k - 1] + counters[k][field]
    IN  F[Len(counters)]

\* the Counters of the leaves added up with Counter.__add__, first to last
\* and last to first
AddedUp(forward) ==
    LET F[k \in 0 .. Len(log)] ==
            IF k = 0 THEN Counter0
            ELSE CounterAdd(F[k - 1],
                            LeafCounter(log[IF forward THEN k ELSE Len(log) + 1 - k]))
    IN  F[Len(log)]

-----------------------------------------------------------------------------
(* The run of test.py: visit_folder on folder1 *)

\* versionNumber of file1 in test.py
TestVersions == 3

\* the whole of project p2 is selected
TestSelection == [show_folders |-> FALSE, picked |-> {<<"p2", "None">>}]

\* the Ctx of the test: formats f3d and step, all versions, sketches on or off
TestConfigs ==
    {DialogCtx(TestSelection, <<"f3d", "step">>, sk, -1) : sk \in BOOLEAN}

\* the test's run: nothing exists in the output folder, the store lists the
\* versions TestVersions .. 1 of F in some order, and no call of the
\* application fails (the mocks of test.py never raise)
TestInit ==
    /\ cfg \in TestConfigs
    /\ store \in {[versionNumber |-> TestVersions, versions |-> p] :
                     p \in Perms(1 .. TestVersions)}
    /\ fs = NoFiles
    /\ pc = "main"
    /\ mainf = [items |-> cfg.projects_folders, queue |-> <<>>, counter |-> Counter0,
                earlier |-> [counter |-> Counter0, fs |-> NoFiles]]
    /\ fstack = <<>>
    /\ gen = GenFresh
    /\ vf = VfNone
    /\ sstack = <<>>
    /\ openDocs = {}
    /\ failures = MaxFailures
    /\ log = <<>>
    /\ SIdle /\ VIdle

\* the steps this run can take: its folder has no sub-folder and no file
\* that is no design, the version list has no gap, and nothing raises
TestNext ==
    \/ MainNextProject \/ MainVisitFolder \/ MainReturn
    \/ FolderNextFile \/ FolderReturn
    \/ VersionsYield \/ VersionsStop
    \/ VisitFileEnter \/ VisitFileOpen
    \/ ExportFileStep \/ VisitFileReturn
    \/ ExportSketchStep \/ SketchDescend \/ SketchReturn

SpecTest == TestInit /\ [][TestNext]_vars

\* C16 as claimed: the run over folder1 with formats f3d and step, all
\* versions and nothing there before saves one output per version and format
\* (6) and, with sketch export on, one DXF per sketch and version (3), with
\* nothing skipped and nothing errored; with sketch export off it saves the 6
\* alone.
C16_AsClaimed ==
    pc = "done" =>
        /\ CountRes(Only(log, "export_file"), "saved") = 2 * TestVersions
        /\ CountRes(Only(log, "export_sketch"), "saved")
              = (IF cfg.save_sketches THEN TestVersions ELSE 0)
        /\ mainf.counter =
              [saved |-> (IF cfg.save_sketches THEN 3 ELSE 2) * TestVersions,
               skipped |-> 0, errored |-> 0]

\* the folders main visits under a Ctx: for each project the folders it
\* selects, with all that is nested in them when it visits recursively
VisitPlan(ctx) ==
    UNION {LET item == ctx.projects_folders[n]
               sel == FoldersToVisit(item.project, item.folder_ids)
           IN  UNION {IF sel[k].recurse THEN FoldersBelow(sel[k].folder)
                      ELSE {sel[k].folder} : k \in 1 .. Len(sel)}
           : n \in 1 .. Len(ctx.projects_folders)}

\* C17 as claimed: the Ctx of the run, written with to_dict and read back
\* with from_dict, has the same folder, formats, folder filter of every
\* project, flags and number of versions, and makes main visit the same
\* folders: those the run has visited when it ends.
C17_AsClaimed ==
    LET back == FromDict(ToDict(cfg)) IN
        /\ back.folder = cfg.folder
        /\ back.formats = cfg.formats
        /\ Len(back.projects_folders) = Len(cfg.projects_folders)
        /\ \A n \in 1 .. Len(cfg.projects_folders) :
              /\ back.projects_folders[n].project = cfg.projects_folders[n].project
              /\ PyEq(back.projects_folders[n].folder_ids,
                      cfg.projects_folders[n].folder_ids)
        /\ back.unhide_all = cfg.unhide_all
        /\ back.save_sketches = cfg.save_sketches
        /\ back.num_versions = cfg.num_versions
        /\ VisitPlan(back) = VisitPlan(cfg)
        /\ pc = "done" =>
              {log[i].what : i \in At("visit_folder")} = VisitPlan(back)

-----------------------------------------------------------------------------
(* A run of main on a Ctx that a caller built by hand *)

\* Ctx(...) called directly: nothing makes formats hold members of Format
\* only.  The first format is something else, the second is Format.F3D.
HandBuiltConfigs ==
    {[DialogCtx([show_folders |-> FALSE, picked |-> {<<"p1", "None">>}],
                <<"f3d">>, sk, n)
        EXCEPT !.formats = <<"OBJ">> \o @] : sk \in BOOLEAN, n \in {-1, 0}}

HandBuiltInit ==
    /\ cfg \in HandBuiltConfigs
    /\ store \in Stores
    /\ fs \in {NoFiles, LeftOver}
    /\ pc = "main"
    /\ mainf = [items |-> cfg.projects_folders, queue |-> <<>>, counter |-> Counter0,
                earlier |-> [counter |-> Counter0, fs |-> NoFiles]]
    /\ fstack = <<>>
    /\ gen = GenFresh
    /\ vf = VfNone
    /\ sstack = <<>>
    /\ openDocs = {}
    /\ failures = 0
    /\ log = <<>>
    /\ SIdle /\ VIdle

SpecHandBuilt == HandBuiltInit /\ [][Next]_vars

-----------------------------------------------------------------------------
(* A run of main that keeps running *)

\* the runs over the whole of project p1 that start with an empty output
\* folder: every Ctx of the dialog for that selection, every version list
LiveInit ==
    /\ Init
    /\ cfg.projects_folders = MakeProjectsFolders(
            [show_folders |-> FALSE, picked |-> {<<"p1", "None">>}])
    /\ fs = NoFiles

\* the interpreter takes the next step of the run as long as there is one:
\* python runs main on one thread, and no step of it waits for another
SpecLive == LiveInit /\ [][Next]_vars /\ WF_vars(Next)

\* C19: whatever fails on the way (an export of a format, an export of a
\* sketch, the opening of a document, the resolution of a file's versions),
\* the run comes to its end, where main returns its Counter; no failure
\* leaves it stuck or aborted before.
C19_RunTerminates == <>(pc = "done")

\* a run that has ended after an exception of file_versions, a failed
\* export of a format and a failed export of a sketch
C19_Witness ==
    /\ pc = "done"
    /\ \E i \in At("catch") : log[i].what = "file_versions"
    /\ \E i \in At("export_file") : log[i].res = "errored"
    /\ \E i \in At("export_sketch") : log[i].res = "errored"
    /\ mainf.counter.errored = 3

-----------------------------------------------------------------------------
(* export_file under a Config with the force-overwrite flag.  test.py       *)
(* builds its Config with force=False; this Exporter.py has neither Config  *)
(* nor the flag, so the flag is modelled from its description                *)

\* the skip decision of an export under Config.force: with the flag set,
\* neither the exact path nor an archive of it is looked for, and nothing is
\* re-stamped; without it, output_path_exists decides
ShouldSkip(force, path, files, time, update) ==
    IF force THEN [exists |-> FALSE, fs |-> files]
    ELSE OutputPathExists(path, files, time, update)

\* export_file(ctx, format, doc) with ctx.config.force = force: export_file
\* as above, with ShouldSkip in the place of output_path_exists
ExportFileForce(force, folder, format, doc, files, outcome) ==
    LET output_path == ExportFilename(folder, format, doc.file, doc.version)
        chk == ShouldSkip(force, output_path, files,
                          DateModified(doc.file, doc.version),
                          update_existing_file_times)
        op == LazyOpen(doc, IF outcome \in {"open_raise", "activate_raise"}
                            THEN outcome ELSE "ok")
        call == CallExport("execute", doc, format, output_path, chk.fs, outcome)
    IN  IF chk.exists THEN
            [counter |-> Skipped1, raised |-> FALSE, fs |-> chk.fs, doc |-> doc,
             opened |-> FALSE, path |-> output_path, events |-> <<>>]
        ELSE IF op.raised THEN
            [counter |-> Counter0, raised |-> TRUE, fs |-> chk.fs, doc |-> op.doc,
             opened |-> op.opened, path |-> output_path, events |-> op.events]
        ELSE IF format \notin Formats THEN
            [counter |-> Counter0, raised |-> TRUE, fs |-> chk.fs, doc |-> op.doc,
             opened |-> op.opened, path |-> output_path, events |-> op.events]
        ELSE
            [counter |-> Saved1, raised |-> call.raised, fs |-> call.fs,
             doc |-> op.doc, opened |-> op.opened, path |-> output_path,
             events |-> op.events \o call.events]

\* the item exported: version 1 of file B, into the folder of project p1
ForceFolder == <<"out", "R">>
ForceDoc == NewLazyDocument("B", 1)

\* the output path of the item in format
ForcePath(format) == ExportFilename(ForceFolder, format, "B", 1)

\* the paths that may be there before: the outputs of the item, archives of
\* them, and the output of another version
ForceUniverse ==
    { ForcePath("F3D"), ForcePath("STEP"),
      WithName(ForcePath("F3D"), PathName(ForcePath("F3D")) \o ".zip"),
      WithName(ForcePath("STEP"), PathName(ForcePath("STEP")) \o ".tar.gz"),
      ExportFilename(ForceFolder, "F3D", "B", 2) }

ForceInit ==
    /\ sIn \in [force : BOOLEAN,
                format : {"F3D", "STEP"},
                fs : UNION {[E -> {OldTime}] : E \in SUBSET ForceUniverse},
                outcome : ExportOutcomes \cup OpenOutcomes]
    /\ sOut = [status |-> "pending"]
    /\ VIdle
    /\ MIdle

\* visit_file calls export_file for the format
ForceExport ==
    /\ sOut.status = "pending"
    /\ sOut' = [status |-> "returned",
                r |-> ExportFileForce(sIn.force, ForceFolder, sIn.format,
                                      ForceDoc, sIn.fs, sIn.outcome)]
    /\ UNCHANGED <<sIn, vvars, mvars>>

ForceNext == ForceExport

SpecForce == ForceInit /\ [][ForceNext]_vars

-----------------------------------------------------------------------------
(* The order of a run *)

\* whether the entries at i and j are of the same file-version
SameVisit(i, j) ==
    log[i].file = log[j].file /\ log[i].version = log[j].version

\* whether the visit_file entered at i is over before position j: it
\* returned, or its exception was caught
ClosedBefore(i, j) ==
    \E k \in (i + 1) .. (j - 1) :
        /\ log[k].op \in {"return_file", "catch"}
        /\ SameVisit(i, k)

\* the sub-folders of a folder
SubFolderSet(folder) ==
    {DataFolders(folder)[k] : k \in 1 .. Len(DataFolders(folder))}

\* C21: the versions of a file are visited newest first; in a file-version
\* every sketch export comes before the first format export, with the visit
\* of the sketches begun before it when sketches are saved, and the k-th
\* format export is of the k-th member of ctx.formats; a file's visits are
\* all over when the next file is taken up or a sub-folder is entered; and a
\* sub-folder is entered only after every file of its parent was taken up.
C21_RunOrder ==
    LET visits == At("visit_file")
        formats == At("export_file")
        sketches == At("export_sketch")
        files == At("file")
        folders == At("visit_folder")
        \* the entries of visit_folder made by the visit of the parent folder
        subs == {j \in folders :
                    \E q \in folders :
                        q < j /\ log[j].what \in SubFolderSet(log[q].what)}
    IN  /\ \A i, j \in visits :
              (i < j /\ log[i].file = log[j].file) =>
                  log[i].version > log[j].version
        /\ \A e \in formats :
              /\ \A s \in sketches : SameVisit(s, e) => s < e
              /\ cfg.save_sketches =>
                    \E s \in At("visit_sketches") : s < e /\ SameVisit(s, e)
              /\ LET k == Cardinality({i \in formats : i <= e /\ SameVisit(i, e)})
                 IN  k <= Len(cfg.formats) /\ log[e].what = cfg.formats[k]
        /\ \A i \in visits :
              /\ \E f \in files :
                    /\ f < i
                    /\ log[f].file = log[i].file
                    /\ \A g \in files : g < i => g <= f
              /\ \A j \in files \cup subs : i < j => ClosedBefore(i, j)
        /\ \A j \in subs :
              \A p \in AllFolders :
                  log[j].what \in SubFolderSet(p) =>
                      /\ \A f \in files : log[f].what = p => f < j
                      /\ Cardinality({f \in files : log[f].what = p /\ f < j})
                            = Len(DataFiles(p))

\* a finished run that visited three versions of A with sketches and two
\* formats each, then B, then the sub-folder S
C21_Witness ==
    /\ pc = "done"
    /\ cfg.save_sketches
    /\ Len(cfg.formats) = 2
    /\ Cardinality({i \in At("visit_file") : log[i].file = "A"}) = 3
    /\ Cardinality({i \in At("export_file") : log[i].file = "A"}) = 6
    /\ \E s \in At("export_sketch") : log[s].file = "A" /\ log[s].version = 1
    /\ \E i \in At("visit_file") : log[i].file = "B"
    /\ \E j \in At("visit_folder") : log[j].what = "S" /\ log[j].res = "recurse"

-----------------------------------------------------------------------------
(* A LazyDocument on its own: every sequence of open() and close() calls   *)
(* on one instance, up to MaxCalls calls                                    *)

\* the instance, the calls made on it so far, and the external calls they
\* made: documents.open(file) and document.close(False)
LazyInit ==
    /\ sIn = [doc |-> NewLazyDocument("B", 1), calls |-> <<>>]
    /\ sOut = [opens |-> 0, closes |-> 0, open |-> {}]
    /\ VIdle
    /\ MIdle

\* doc.open(): documents.open is called unless the handle holds a document
LazyCallOpen ==
    /\ Len(sIn.calls) < MaxCalls
    /\ \E o \in (IF sIn.doc.document THEN {"ok"} ELSE OpenOutcomes) :
        LET r == LazyOpen(sIn.doc, o) IN
            /\ sIn' = [doc |-> r.doc, calls |-> Append(sIn.calls, "open " \o o)]
            /\ sOut' = [opens |-> sOut.opens + Len(r.events),
                        closes |-> sOut.closes,
                        open |-> IF r.opened
                                 THEN sOut.open \cup {<<"B", 1>>} ELSE sOut.open]
    /\ UNCHANGED <<vvars, mvars>>

\* doc.close()
LazyCallClose ==
    /\ Len(sIn.calls) < MaxCalls
    /\ LET r == LazyClose(sIn.doc, sOut.open) IN
        /\ sIn' = [sIn EXCEPT !.calls = Append(@, "close")]
        /\ sOut' = [opens |-> sOut.opens,
                    closes |-> sOut.closes + Len(r.events),
                    open |-> r.open]
    /\ UNCHANGED <<vvars, mvars>>

LazyNext == LazyCallOpen \/ LazyCallClose

SpecLazy == LazyInit /\ [][LazyNext]_vars

\* C22 as claimed: whatever calls were made on the instance, documents.open
\* was called at most once and document.close at most once, and without a
\* call of open() no external call was made.
C22_AsClaimed ==
    /\ sOut.opens <= 1
    /\ sOut.closes <= 1
    /\ (\A k \in 1 .. Len(sIn.calls) : sIn.calls[k] = "close") =>
            (sOut.opens = 0 /\ sOut.closes = 0)

-----------------------------------------------------------------------------
(* The document is opened when an export needs it *)

\* the entries of op that belong to the file-version visited at i
OfVisit(op, i) == {k \in At(op) : SameVisit(k, i)}

\* C23: for a design visited without sketch export, documents.open has been
\* called for the file-version exactly when one of its export_file calls so
\* far was not skipped; and as long as every export_file of it was skipped,
\* neither documents.open nor document.close is called for it, up to and
\* including the return of visit_file; no skipped export_file calls
\* documents.open.
C23_OpenedWhenNeeded ==
    ~cfg.save_sketches =>
        \A i \in At("visit_file") :
            FileExtension(log[i].file) = "f3d" =>
                LET opens == OfVisit("open", i)
                    closes == OfVisit("close", i)
                    exports == OfVisit("export_file", i)
                    needed == \E e \in exports : log[e].res /= "skipped"
                IN  /\ (opens /= {}) <=> needed
                    /\ ~needed => closes = {}
                    /\ \A e \in exports :
                          log[e].res = "skipped" =>
                              ~\E k \in opens :
                                  k < e /\ \A d \in exports : d < e => d < k

\* B's only requested output is there as an archive: the visit of B has
\* returned with the export skipped, and B was never opened or closed
C23_Witness ==
    /\ ~cfg.save_sketches
    /\ cfg.formats = <<"F3D">>
    /\ ArchiveExists(ExportFilename(<<"out", "R">>, "F3D", "B", 1), fs)
    /\ \E i \in At("return_file") : log[i].file = "B" /\ log[i].res = "returned"
    /\ \E e \in At("export_file") : log[e].file = "B" /\ log[e].res = "skipped"
    /\ ~\E k \in At("open") \cup At("close") : log[k].file = "B"
    /\ \E k \in At("open") : log[k].file = "A"

-----------------------------------------------------------------------------
(* The Ctx handed down the calls *)

\* whether the frames two stacks have in common carry the same Ctx
SameCtx(before, after) ==
    \A k \in 1 .. Min(Len(before), Len(after)) : after[k].ctx = before[k].ctx

\* whether child is parent extended by exactly the segment
OneMore(parent, child, segment) ==
    /\ Len(child) = Len(parent) + 1
    /\ SubSeq(child, 1, Len(parent)) = parent
    /\ child[Len(child)] = segment

\* C24: no step changes the Ctx main was given or the Ctx of a call in
\* progress, whether the step is a call, a return or the catch of an
\* exception; visit_folder works under the prefix it was given plus the
\* sanitized name of its folder, visit_file is given the prefix of its
\* folder's visit, and visit_sketches is given the prefix of its caller plus
\* the sanitized name of the root component or of the occurrence.
C24_CtxHandedDown ==
    [][ /\ cfg' = cfg
        /\ SameCtx(fstack, fstack')
        /\ SameCtx(sstack, sstack')
        /\ (vf /= VfNone /\ vf' /= VfNone) => vf'.ctx = vf.ctx
        /\ Len(fstack') = Len(fstack) + 1 =>
              OneMore(IF fstack = <<>> THEN cfg.folder ELSE Top(fstack).ctx,
                      Top(fstack').ctx,
                      SanitizeFilename(FolderName(Top(fstack').folder)))
        /\ (vf = VfNone /\ vf' /= VfNone) => vf'.ctx = Top(fstack).ctx
        /\ Len(sstack') = Len(sstack) + 1 =>
              IF sstack = <<>>
              THEN OneMore(vf.ctx, Top(sstack').ctx,
                           SanitizeFilename(ComponentName(RootComponentOf(vf.file))))
              ELSE OneMore(Top(sstack).ctx, Top(sstack').ctx,
                           SanitizeFilename(OccurrenceName(
                               Occurrences(Top(sstack).component)[Top(sstack).oi])))
      ]_vars

\* the visit of sub-folder S under out/R/S, after an exception was caught in
\* R and the sketches of an occurrence were visited under a sanitized name
C24_Witness ==
    /\ Len(fstack) = 2
    /\ fstack[1].ctx = <<"out", "R">>
    /\ fstack[2].ctx = <<"out", "R", "S">>
    /\ At("catch") /= {}
    /\ \E i \in At("visit_sketches") :
          /\ Len(log[i].path) = 4
          /\ log[i].path[4] = SanitizeFilename(<<"c", ":", "1">>)
          /\ log[i].path[4] /= "c:1"
    /\ \E i \in At("return_sketches") : TRUE

-----------------------------------------------------------------------------
(* A gap in the versions of a file, met in the middle of the loop *)

\* the versions a file lists, newest first
ListedDesc(file) == SortedDesc(Versions(file, store))

\* how many of the listed versions the loop is to consume
ToConsume(file) ==
    Consumed([versions |-> Versions(file, store), num_versions |-> cfg.num_versions])

\* the places of the listed versions to consume that are followed by a gap
GapsAt(file) ==
    LET s == ListedDesc(file) IN
        {j \in 1 .. (ToConsume(file) - 1) : s[j] - s[j + 1] /= 1}

\* the Counter that counts the leaves of the history after position from
TotalSince(from) ==
    LET at == {i \in LeafPositions : i > from} IN
        [saved |-> Cardinality({i \in at : LeafCounter(log[i]).saved = 1}),
         skipped |-> Cardinality({i \in at : LeafCounter(log[i]).skipped = 1}),
         errored |-> Cardinality({i \in at : LeafCounter(log[i]).errored = 1})]

\* the position of the latest entry of op before position i, 0 if there is
\* none
LatestBefore(op, i) ==
    LET at == {k \in At(op) : k < i} IN
        IF at = {} THEN 0 ELSE CHOOSE k \in at : \A m \in at : m <= k

\* C25: when file_versions raises after it has yielded versions of a file,
\* the versions visited are the listed ones above the first gap, newest
\* first, each visit had returned before the exception, the version below
\* the gap was still to be consumed, and no version of the file is visited
\* afterwards; the exception is the only one caught for the file, and when
\* it is caught the folder's Counter is the outcomes of everything visited
\* in the folder so far plus that one errored.  And a file whose versions to
\* consume have a gap, and whose visits did not raise, ends like that, with
\* at least its current version visited.
C25_GapMidway ==
    /\ \A c \in At("catch") :
          LET f == log[c].file
              start == LatestBefore("file", c)
              visited == {i \in At("visit_file") : start < i /\ i < c}
              s == ListedDesc(f)
              j == Cardinality(visited)
          IN  (log[c].what = "file_versions" /\ visited /= {}) =>
                /\ log[start].file = f
                /\ \A i \in visited :
                      /\ log[i].file = f
                      /\ log[i].version
                            = s[Cardinality({k \in visited : k <= i})]
                      /\ \E r \in At("return_file") :
                            i < r /\ r < c /\ SameVisit(i, r)
                /\ j \in GapsAt(f)
                /\ \A k \in GapsAt(f) : j <= k
                /\ ~\E i \in At("visit_file") : i > c /\ log[i].file = f
                /\ {k \in At("catch") : start < k /\ k <= c} = {c}
                /\ c = Len(log) =>
                      Top(fstack).counter
                          = TotalSince(LatestBefore("visit_folder", start))
    /\ pc = "done" =>
          \A st \in At("file") :
              LET f == log[st].file IN
                  ( /\ ListedDesc(f) /= <<>>
                    /\ ListedDesc(f)[1] = VersionNumber(f, store)
                    /\ GapsAt(f) /= {}
                    /\ ~\E k \in At("catch") :
                          log[k].file = f /\ log[k].what = "visit_file" ) =>
                      \E c \in At("catch") :
                          /\ c > st
                          /\ log[c].file = f
                          /\ log[c].what = "file_versions"
                          /\ \E i \in At("visit_file") :
                                st < i /\ i < c /\ log[i].file = f

\* A lists versions 3 and 1 and all are asked for: version 3 was visited and
\* exported in two formats with its sketches, then the gap was caught, the
\* Counter of R holding the saved outputs and the one errored
C25_Witness ==
    /\ store.versions = <<1, 3>>
    /\ cfg.num_versions = -1
    /\ Len(cfg.formats) = 2
    /\ cfg.save_sketches
    /\ log /= <<>>
    /\ log[Len(log)].op = "catch"
    /\ log[Len(log)].what = "file_versions"
    /\ log[Len(log)].file = "A"
    /\ {log[i].version : i \in At("visit_file")} = {3}
    /\ Top(fstack).counter.errored = 1
    /\ Top(fstack).counter.saved >= 3

-----------------------------------------------------------------------------
(* What main reports as saved and what was written *)

\* the external export calls of the history that wrote their output: the
\* call returned, whether or not set_mtime raised after it
Written == {i \in ExportCalls : log[i].res \in {"ok", "mtime_raise"}}

\* C26 as claimed: at the end of a run the saved count main returns is the
\* number of outputs the external export calls of the run wrote.
C26_AsClaimed ==
    pc = "done" => mainf.counter.saved = Cardinality(Written)

====
